---- MODULE Spec2Model ----
(***************************************************************************)
(* A model of the chunked, content-addressed block store of               *)
(* vendor/codeberg.org/gruf/go-store/storage/block.go (BlockStorage).      *)
(*                                                                         *)
(* The file system is two maps: node files (key -> list of block hashes)   *)
(* and block files (hash -> stored bytes).  Bytes are drawn from a two     *)
(* letter alphabet and the configured BlockSize is scaled down, so that    *)
(* values of a few bytes already span several chunks and end in a short    *)
(* final chunk.  Every operation of the store is one action; the chunk     *)
(* loop of WriteStream, the block walk of Clean and the streaming reader   *)
(* are operators that follow the code statement by statement.              *)
(***************************************************************************)
EXTENDS Integers, Sequences, FiniteSets, TLC

VARIABLES
    nodes,      \* node files on disk: [key -> hashes, each with its separator]
    blocks,     \* block files on disk: [hash -> stored bytes]
    nodeDir,    \* the node/ directory exists
    blockDir,   \* the block/ directory exists
    pool,       \* st.bufpool: contents left in the buffers that were put back
    cwdFiles,   \* names that exist in the process's working directory
    overwrite,  \* st.config.Overwrite
    closed,     \* st.lock is closed
    inflight,   \* st.lock's in-flight counter
    last,       \* the last operation: its arguments, result and footprint
    calls,      \* the calls that run concurrently, each with its locals
    writers,    \* the chunk writer goroutines that are running
    iter,       \* a KVIterator: its fields and what its last method returned
    rd,         \* a nodeReader being read, with the bytes it has produced
    wr          \* a nodeWriter being written to, with the bytes still to come

vars == <<nodes, blocks, nodeDir, blockDir, pool, cwdFiles, overwrite,
          closed, inflight, last, calls, writers, iter, rd, wr>>

\* the state of the concurrent calls
conc == <<calls, writers>>

\* the iterator and the node codec, which run apart from the store's files
parts == <<iter, rd, wr>>

----------------------------------------------------------------------------
(* Bounds and alphabets *)

\* config.BlockSize, scaled down from 16 KiB
BlockSize == 2
\* longest value written
MaxLen == 3
\* largest read buffer a caller passes to the stream
MaxBuf == 2
\* buffers the pool keeps before the garbage collector empties it
PoolCap == 1

Bytes == {0, 1}
NumBytes == Cardinality(Bytes)

\* the values written: byte strings of up to MaxLen bytes in which every
\* chunk starts with byte 1 (this keeps the number of distinct chunks small)
Values ==
    {v \in UNION {[1..n -> Bytes] : n \in 0..MaxLen} :
        \A i \in DOMAIN v : (i % BlockSize = 1) => v[i] = 1}
Buffers == [1..BlockSize -> Bytes]
\* the sizes of the buffers a caller passes to successive Read calls: two
\* sizes, taken in turn
Scheds == (1..MaxBuf) \X (1..MaxBuf)

\* keys are strings, modelled as sequences of characters
ValidKeys == {<<"a">>, <<"b">>}
InvalidKeys == {<<"a", "/", "b">>, <<".">>, <<".", ".">>}
Keys == ValidKeys \cup InvalidKeys

\* names that may exist in the working directory of the process
CwdCandidates == {<<"a">>}

Min(x, y) == IF x < y THEN x ELSE y

Range(s) == {s[i] : i \in DOMAIN s}

Restrict(f, S) == [x \in S |-> f[x]]

----------------------------------------------------------------------------
(* Hashing *)

\* hashEncoder.EncodeSum: the encoded digest of src.  The digest is taken
\* to be collision free: an injective numbering of byte sequences.
RECURSIVE EncodeSum(_)
EncodeSum(src) ==
    IF src = <<>> THEN 0
    ELSE (Head(src) + 1) + (NumBytes + 1) * EncodeSum(Tail(src))

\* the hash the chunk loop records for a chunk: n bytes were read into the
\* buffer buf (of length BlockSize); the code hashes buf.B, the whole buffer
chunkSum(buf, n) == EncodeSum(buf)

----------------------------------------------------------------------------
(* Key validation *)

\* nodePathForKey: keys holding a path separator, "." and ".." are illegal
\* (a variant that lets ".." through)
nodePathForKeyNoDotDot(key) ==
    ~ ((\E i \in DOMAIN key : key[i] = "/") \/ key = <<".">>)
nodePathForKey(key) ==
    ~ ((\E i \in DOMAIN key : key[i] = "/") \/ key = <<".">> \/ key = <<".", ".">>)

----------------------------------------------------------------------------
(* The buffer pool *)

ZeroBuf == [i \in 1..BlockSize |-> 0]

\* st.bufpool.Get() followed by buf.Grow(BlockSize): a new zeroed buffer, or
\* one that was put back and still holds the bytes of its last use
bufGet(pl) ==
    {[stale |-> ZeroBuf, pool |-> pl]}
        \cup {[stale |-> s, pool |-> pl \ {s}] : s \in pl}

\* st.bufpool.Put(buf): the length is reset, the bytes stay; a full pool
\* is emptied first (sync.Pool drops its items at a garbage collection)
bufPut(pl, buf) ==
    IF Cardinality(pl \cup {buf}) <= PoolCap THEN pl \cup {buf} ELSE {buf}

----------------------------------------------------------------------------
(* The record of the last operation: op, its key, the bytes val it read from  *)
(* its input stream, its result res, the hashes of the node it built, the     *)
(* bytes out it returned, the keys it reported corrupt, whether it entered    *)
(* the store lock (locked) and whether it accessed the file system (fs)       *)

Op(op, key, val, res, hashes, out, corrupt, locked, fs) ==
    [op |-> op, key |-> key, val |-> val, res |-> res, hashes |-> hashes,
     out |-> out, corrupt |-> corrupt, locked |-> locked, fs |-> fs,
     removed |-> {}, again |-> FALSE, walked |-> {}]

\* a Clean also records the block files it removed and whether the operation
\* before it was a Clean too
CleanOp(res, corrupt, fs, removed, again) ==
    [Op("Clean", <<>>, <<>>, res, <<>>, <<>>, corrupt, TRUE, fs)
        EXCEPT !.removed = removed, !.again = again]

\* a WalkKeys records the keys it passed to the walk function
WalkOp(res, fs, walked) ==
    [Op("WalkKeys", <<>>, <<>>, res, <<>>, <<>>, {}, TRUE, fs)
        EXCEPT !.walked = walked]

NoOp == Op("none", <<>>, <<>>, "none", <<>>, <<>>, {}, FALSE, FALSE)

----------------------------------------------------------------------------
(* Node files: each hash of the node followed by the hash separator.  A hash  *)
(* is one symbol of a node file.                                              *)

hashSeparator == 0
encodedHashLen == 1

\* nodeReader.Read into a buffer that takes the whole node: what
\* io.CopyBuffer writes to the node file
RECURSIVE nodeReader(_)
nodeReader(hashes) ==
    IF hashes = <<>> THEN <<>>
    ELSE <<Head(hashes), hashSeparator>> \o nodeReader(Tail(hashes))

\* nodeWriter.Write(b) with buf the bytes kept from before the last
\* separator: the hashes parsed, or errInvalidNode
RECURSIVE nodeWriter(_, _, _)
nodeWriter(b, buf, hashes) ==
    IF \A i \in DOMAIN b : b[i] # hashSeparator
    THEN IF Len(buf) > encodedHashLen
         THEN [err |-> "errInvalidNode", hashes |-> hashes]
         ELSE [err |-> "nil", hashes |-> hashes]
    ELSE LET idx == CHOOSE i \in DOMAIN b :
                      /\ b[i] = hashSeparator
                      /\ \A j \in 1..(i - 1) : b[j] # hashSeparator
             hash == buf \o SubSeq(b, 1, idx - 1)
         IN IF Len(hash) # encodedHashLen
            THEN [err |-> "errInvalidNode", hashes |-> hashes]
            ELSE nodeWriter(SubSeq(b, idx + 1, Len(b)), <<>>,
                            Append(hashes, hash[1]))

----------------------------------------------------------------------------
(* WriteStream *)

\* stat(key) of WriteStream: the code stats the key itself, a path relative
\* to the working directory, and not the node path npath it has just built
statKey(key, nds, cwd) == key \in cwd

\* the chunk writers of the call that have not finished yet are gos, each
\* with the hash and the buffer it holds; vis are the hashes whose block file
\* finished writers of the call have created.  Any of the writers may finish
\* at any time: its block file is then on disk and its buffer is put back
RECURSIVE finishSome(_, _, _)
finishSome(gos, vis, pl) ==
    {[gos |-> gos, vis |-> vis, pool |-> pl]}
        \cup UNION {finishSome(gos \ {g}, vis \cup {g.sum}, bufPut(pl, g.buf)) :
                      g \in gos}

\* statBlock(sum): a block that was on disk before the call, or that a
\* finished writer of the call created, is seen; one that a running writer
\* of the call is creating is seen or not
\* (a variant that reports every block as present)
statBlockAlways(sum, have, vis, gos) ==
    {TRUE}
statBlock(sum, have, vis, gos) ==
    IF sum \in have \cup vis THEN {TRUE}
    ELSE IF \E g \in gos : g.sum = sum THEN {TRUE, FALSE}
    ELSE {FALSE}

\* writeBlock(sum, buf.B[:n]) in a goroutine: pending maps each hash to the
\* contents that the chunk writers of this call write to its block file
writeBlock(pending, sum, buf, n) ==
    IF sum \in DOMAIN pending
    THEN [pending EXCEPT ![sum] = @ \cup {SubSeq(buf, 1, n)}]
    ELSE pending @@ (sum :> {SubSeq(buf, 1, n)})

\* the contents that the block files written by the call may hold: one of
\* the contents written to each
RECURSIVE lastWrites(_)
lastWrites(pending) ==
    IF DOMAIN pending = {} THEN {<<>>}
    ELSE LET h == CHOOSE x \in DOMAIN pending : TRUE
         IN {(h :> c) @@ f : c \in pending[h],
                              f \in lastWrites(Restrict(pending, DOMAIN pending \ {h}))}

\* wg.Wait(): every chunk writer has finished; a block file that several
\* writers of the call wrote holds what the last of them wrote
waitWriters(hashes, pending, gos, pl) ==
    {[hashes |-> hashes, written |-> f, pool |-> a.pool] :
        f \in lastWrites(pending),
        a \in {x \in finishSome(gos, {}, pl) : x.gos = {}}}

\* the chunk loop of WriteStream on the bytes rest that the input stream
\* still holds, have the hashes of the block files on disk: the set of its
\* possible outcomes
\* (a variant that lists the hashes latest first, as if each were recorded
\* when its chunk writer finished and the writers finished in reverse)
RECURSIVE chunkLoopByCompletion(_, _, _, _, _, _, _)
chunkLoopByCompletion(rest, hashes, have, pending, gos, vis, pl) ==
    IF rest = <<>>
    THEN waitWriters(hashes, pending, gos, pl)
    ELSE LET n == Min(Len(rest), BlockSize)
             more == SubSeq(rest, n + 1, Len(rest))
         IN UNION { UNION {
              LET buf == SubSeq(rest, 1, n) \o SubSeq(g.stale, n + 1, BlockSize)
                  sum == chunkSum(buf, n)
                  hs == <<sum>> \o hashes
              IN UNION {
                   IF has
                   THEN chunkLoopByCompletion(more, hs, have, pending, a.gos,
                                  a.vis \cup {sum}, bufPut(g.pool, buf))
                   ELSE chunkLoopByCompletion(more, hs, have,
                                  writeBlock(pending, sum, buf, n),
                                  a.gos \cup {[i |-> Len(hs), sum |-> sum, buf |-> buf]},
                                  a.vis, g.pool)
                   : has \in statBlock(sum, have, a.vis, a.gos)}
              : g \in bufGet(a.pool)}
              : a \in finishSome(gos, vis, pl)}
RECURSIVE chunkLoop(_, _, _, _, _, _, _)
chunkLoop(rest, hashes, have, pending, gos, vis, pl) ==
    IF rest = <<>>
    THEN \* io.ReadFull returns io.EOF: break
         waitWriters(hashes, pending, gos, pl)
    ELSE LET n == Min(Len(rest), BlockSize)
             more == SubSeq(rest, n + 1, Len(rest))
         IN UNION { UNION {
              LET buf == SubSeq(rest, 1, n) \o SubSeq(g.stale, n + 1, BlockSize)
                  sum == chunkSum(buf, n)
                  hs == Append(hashes, sum)
              IN UNION {
                   IF has
                   THEN \* already on disk: skip
                        chunkLoop(more, hs, have, pending, a.gos,
                                  a.vis \cup {sum}, bufPut(g.pool, buf))
                   ELSE \* (a short chunk is the last: more is empty)
                        chunkLoop(more, hs, have,
                                  writeBlock(pending, sum, buf, n),
                                  a.gos \cup {[i |-> Len(hs), sum |-> sum, buf |-> buf]},
                                  a.vis, g.pool)
                   : has \in statBlock(sum, have, a.vis, a.gos)}
              : g \in bufGet(a.pool)}
              : a \in finishSome(gos, vis, pl)}

\* the node file after open(npath, flags) and the copy of the node's hashes:
\* an existing file is truncated and rewritten
writeNode(nds, key, hashes) ==
    [k \in DOMAIN nds \cup {key} |->
        IF k = key THEN nodeReader(hashes) ELSE nds[k]]

\* WriteStream(key, r) up to its stat of the key: the calls that return
\* before the chunk loop reads the input stream
WriteStreamReject(key) ==
    IF ~ nodePathForKey(key)
    THEN /\ last' = Op("Write", key, <<>>, "ErrInvalidKey", <<>>, <<>>, {}, FALSE, FALSE)
         /\ UNCHANGED <<nodes, blocks, nodeDir, blockDir, pool>>
    ELSE IF closed
    THEN /\ last' = Op("Write", key, <<>>, "ErrClosed", <<>>, <<>>, {}, TRUE, FALSE)
         /\ UNCHANGED <<nodes, blocks, nodeDir, blockDir, pool>>
    ELSE /\ statKey(key, nodes, cwdFiles) /\ ~ overwrite
         /\ last' = Op("Write", key, <<>>, "ErrAlreadyExists", <<>>, <<>>, {}, TRUE, TRUE)
         /\ UNCHANGED <<nodes, blocks, nodeDir, blockDir, pool>>

\* len(node.hashes) < 1 after the chunk loop: no chunk was read
\* (a variant that lets a node without hashes through)
noHashesNever(hashes) == FALSE
noHashes(hashes) == Len(hashes) < 1

\* WriteStream(key, r) from MkdirAll on: val is what the input stream r
\* yields and o is an outcome of the chunk loop on it
WriteStreamStore(key, val, o) ==
    /\ nodePathForKey(key) /\ ~ closed
    /\ ~ (statKey(key, nodes, cwdFiles) /\ ~ overwrite)
    /\ nodeDir' = TRUE
    /\ blockDir' = TRUE
    /\ blocks' = blocks @@ o.written
    /\ pool' = o.pool
    /\ IF noHashes(o.hashes)
       THEN /\ last' = Op("Write", key, val, "errNoHashesWritten",
                          o.hashes, <<>>, {}, TRUE, TRUE)
            /\ UNCHANGED nodes
       ELSE IF ~ overwrite /\ key \in DOMAIN nodes
       THEN \* O_EXCL: errSwapExist
            /\ last' = Op("Write", key, val, "ErrAlreadyExists",
                          o.hashes, <<>>, {}, TRUE, TRUE)
            /\ UNCHANGED nodes
       ELSE /\ nodes' = writeNode(nodes, key, o.hashes)
            /\ last' = Op("Write", key, val, "ok",
                          o.hashes, <<>>, {}, TRUE, TRUE)

Write ==
    /\ \/ \E key \in Keys : WriteStreamReject(key)
       \/ /\ ~ closed
          /\ \E val \in Values :
             \E o \in chunkLoop(val, <<>>, DOMAIN blocks, <<>>, {}, {}, pool) :
             \E key \in ValidKeys : WriteStreamStore(key, val, o)
    /\ UNCHANGED <<cwdFiles, overwrite, closed, inflight>>
    /\ UNCHANGED conc
    /\ UNCHANGED parts

----------------------------------------------------------------------------
(* ReadStream, blockReader and ReadBytes *)

\* readBlock: the bytes of a block file, or errCorruptNode when it cannot
\* be opened
readBlock(blks, hash) ==
    IF hash \in DOMAIN blks
    THEN [err |-> "nil", data |-> blks[hash]]
    ELSE [err |-> "errCorruptNode", data |-> <<>>]

\* the for loop of blockReader.Read: r is the reader (hashes, buf, prev), lenb
\* the length of the caller's buffer and data the bytes copied into it so far
RECURSIVE blockReaderLoop(_, _, _, _)
blockReaderLoop(blks, r, lenb, data) ==
    IF Len(r.hashes) < 1
    THEN [r |-> r, data |-> data, err |-> "EOF"]
    ELSE LET got == readBlock(blks, Head(r.hashes))
         IN IF got.err # "nil"
            THEN [r |-> [hashes |-> Tail(r.hashes), buf |-> <<>>, prev |-> r.prev],
                  data |-> data, err |-> got.err]
            ELSE LET m == Min(lenb - Len(data), Len(got.data))
                     r2 == [hashes |-> Tail(r.hashes), buf |-> got.data, prev |-> m]
                     d2 == data \o SubSeq(got.data, 1, m)
                 IN IF Len(d2) >= lenb
                    THEN [r |-> r2, data |-> d2, err |-> "nil"]
                    ELSE blockReaderLoop(blks, r2, lenb, d2)

\* whether blockReader.Read takes bytes left in r.buf by the previous call
leftInBuf(r) == r.prev < Len(r.buf) - 1

\* blockReader.Read(b) with len(b) = lenb
blockReaderRead(blks, r, lenb) ==
    IF leftInBuf(r)
    THEN LET m == Min(lenb, Len(r.buf) - r.prev)
             d == SubSeq(r.buf, r.prev + 1, r.prev + m)
             r2 == [r EXCEPT !.prev = r.prev + m]
         IN IF m >= lenb
            THEN [r |-> r2, data |-> d, err |-> "nil"]
            ELSE blockReaderLoop(blks, r2, lenb, d)
    ELSE blockReaderLoop(blks, r, lenb, <<>>)

\* io.ReadAll on the stream, the caller's buffer sizes following the cyclic
\* schedule sched from position i: the bytes read and the final error
RECURSIVE readAllFrom(_, _, _, _, _)
readAllFrom(blks, r, sched, i, acc) ==
    LET got == blockReaderRead(blks, r, sched[i])
        acc2 == acc \o got.data
    IN IF got.err = "EOF" THEN [res |-> "ok", out |-> acc2]
       ELSE IF got.err # "nil" THEN [res |-> got.err, out |-> acc2]
       ELSE readAllFrom(blks, got.r, sched, (i % Len(sched)) + 1, acc2)

\* ReadStream on an open store, past the key check: the node file is opened
\* and parsed; no block file is looked at.  What it returns, and the hashes
\* the returned stream holds
ReadStream(nds, key) ==
    IF key \notin DOMAIN nds
    THEN [res |-> "ErrNotFound", hashes |-> <<>>]
    ELSE LET nd == nodeWriter(nds[key], <<>>, <<>>)
         IN IF nd.err # "nil"
            THEN [res |-> nd.err, hashes |-> <<>>]
            ELSE [res |-> "ok", hashes |-> nd.hashes]

\* ReadStream followed by the read of the stream to its end
readKey(nds, blks, key, sched) ==
    LET rs == ReadStream(nds, key)
    IN IF rs.res # "ok"
       THEN [res |-> rs.res, out |-> <<>>]
       ELSE readAllFrom(blks, [hashes |-> rs.hashes, buf |-> <<>>, prev |-> 0],
                        sched, 1, <<>>)

\* st.lock.Add() and st.lock.Done() on the in-flight counter n
lockAdd(n) == n + 1
lockDone(n) == n - 1

\* the in-flight counter when ReadStream returns: an error return past
\* st.lock.Add() calls st.lock.Done() itself; a stream that is returned
\* (res "ok") keeps the count until it is closed
\* (a variant whose NotFound return forgets st.lock.Done())
readStreamLockLeak(res, n) ==
    IF res = "ErrInvalidKey" THEN n
    ELSE IF res \in {"ErrClosed", "errInvalidNode"} THEN lockDone(lockAdd(n))
    ELSE lockAdd(n)
readStreamLock(res, n) ==
    IF res = "ErrInvalidKey" THEN n
    ELSE IF res \in {"ErrClosed", "ErrNotFound", "errInvalidNode"}
    THEN lockDone(lockAdd(n))
    ELSE lockAdd(n)

\* ReadBytes: ReadStream, io.ReadAll, Close of the stream
ReadBytes ==
    \E key \in Keys :
        /\ IF ~ nodePathForKey(key)
           THEN /\ last' = Op("Read", key, <<>>, "ErrInvalidKey", <<>>, <<>>, {}, FALSE, FALSE)
                /\ inflight' = readStreamLock("ErrInvalidKey", inflight)
           ELSE IF closed
           THEN /\ last' = Op("Read", key, <<>>, "ErrClosed", <<>>, <<>>, {}, TRUE, FALSE)
                /\ inflight' = readStreamLock("ErrClosed", inflight)
           ELSE \E got \in {readKey(nodes, blocks, key, sched) : sched \in Scheds} :
                  /\ last' = Op("Read", key, <<>>, got.res, <<>>, got.out, {}, TRUE, TRUE)
                  /\ inflight' =
                        IF got.res \in {"ErrNotFound", "errInvalidNode"}
                        THEN readStreamLock(got.res, inflight)
                        ELSE \* rc.Close() runs the callback st.lock.Done
                             lockDone(readStreamLock("ok", inflight))
        /\ UNCHANGED <<nodes, blocks, nodeDir, blockDir, pool, cwdFiles,
                       overwrite, closed>>
        /\ UNCHANGED conc
        /\ UNCHANGED parts

----------------------------------------------------------------------------
(* Stat, Remove, Close *)

Stat ==
    \E key \in Keys :
        /\ IF ~ nodePathForKey(key)
           THEN last' = Op("Stat", key, <<>>, "ErrInvalidKey", <<>>, <<>>, {}, FALSE, FALSE)
           ELSE IF closed
           THEN last' = Op("Stat", key, <<>>, "ErrClosed", <<>>, <<>>, {}, TRUE, FALSE)
           ELSE last' = Op("Stat", key, <<>>,
                           IF key \in DOMAIN nodes THEN "true" ELSE "false",
                           <<>>, <<>>, {}, TRUE, TRUE)
        /\ UNCHANGED <<nodes, blocks, nodeDir, blockDir, pool, cwdFiles,
                       overwrite, closed, inflight>>
        /\ UNCHANGED conc
        /\ UNCHANGED parts

\* unlink(kpath)
\* (a variant that takes every node file with it)
unlinkAll(nds, key) == Restrict(nds, {})
unlink(nds, key) == Restrict(nds, DOMAIN nds \ {key})

Remove ==
    \E key \in Keys :
        /\ IF ~ nodePathForKey(key)
           THEN /\ last' = Op("Remove", key, <<>>, "ErrInvalidKey", <<>>, <<>>, {}, FALSE, FALSE)
                /\ UNCHANGED nodes
           ELSE IF closed
           THEN /\ last' = Op("Remove", key, <<>>, "ErrClosed", <<>>, <<>>, {}, TRUE, FALSE)
                /\ UNCHANGED nodes
           ELSE IF key \notin DOMAIN nodes
           THEN /\ last' = Op("Remove", key, <<>>, "ErrNotFound", <<>>, <<>>, {}, TRUE, TRUE)
                /\ UNCHANGED nodes
           ELSE /\ nodes' = unlink(nodes, key)
                /\ last' = Op("Remove", key, <<>>, "ok", <<>>, <<>>, {}, TRUE, TRUE)
        /\ inflight' = IF nodePathForKey(key)
                       THEN \* st.lock.Add() and the deferred st.lock.Done()
                            lockDone(lockAdd(inflight))
                       ELSE inflight
        /\ UNCHANGED <<blocks, nodeDir, blockDir, pool, cwdFiles,
                       overwrite, closed>>
        /\ UNCHANGED conc
        /\ UNCHANGED parts

\* WalkKeys: the walk function is called for every regular file of the node
\* directory
\* (a variant without the check of the lock)
WalkKeysUnchecked ==
    /\ last' = WalkOp("ok", TRUE, DOMAIN nodes)
    /\ UNCHANGED <<nodes, blocks, nodeDir, blockDir, pool, cwdFiles,
                   overwrite, closed, inflight>>
    /\ UNCHANGED conc
    /\ UNCHANGED parts
WalkKeys ==
    /\ IF closed
       THEN last' = WalkOp("ErrClosed", FALSE, {})
       ELSE last' = WalkOp("ok", TRUE, DOMAIN nodes)
    /\ UNCHANGED <<nodes, blocks, nodeDir, blockDir, pool, cwdFiles,
                   overwrite, closed, inflight>>
    /\ UNCHANGED conc
    /\ UNCHANGED parts

\* Close: st.lock.Close(); no operation is in flight
Close ==
    /\ inflight = 0
    /\ closed' = TRUE
    /\ last' = Op("Close", <<>>, <<>>, IF closed THEN "ErrClosed" ELSE "ok",
                  <<>>, <<>>, {}, FALSE, FALSE)
    /\ UNCHANGED <<nodes, blocks, nodeDir, blockDir, pool, cwdFiles,
                   overwrite, inflight>>
    /\ UNCHANGED conc
    /\ UNCHANGED parts

----------------------------------------------------------------------------
(* Clean *)

\* the faults a Clean may meet: none, a node file that cannot be opened, or
\* a block file (named by its hash) whose os.Remove fails
NoFault == <<"none">>
NodeFault == <<"node">>
BlockFault(hash) == <<"block", hash>>

\* the entries of a directory in the order a walk visits them
RECURSIVE sorted(_)
sorted(S) ==
    IF S = {} THEN <<>>
    ELSE LET m == CHOOSE x \in S : \A y \in S : x <= y
         IN <<m>> \o sorted(S \ {m})

\* node.removeHash: the node's hashes without any occurrence of hash
removeHash(hashes, hash) == SelectSeq(hashes, LAMBDA x : x # hash)

\* one callback of the block walk decides whether the block is in use: some
\* tracked node dropped the hash
\* (a variant that finds no block in use)
inUseNever(nds, hash) == FALSE
inUseBy(nds, hash) ==
    \E k \in DOMAIN nds : removeHash(nds[k], hash) # nds[k]

\* the tracked nodes after the callback for block hash: the hash is dropped
\* from every node, and a node that held it and is now empty is untracked
dropHash(nds, hash) ==
    LET held == {k \in DOMAIN nds : removeHash(nds[k], hash) # nds[k]}
        gone == {k \in held : Len(removeHash(nds[k], hash)) < 1}
    IN [k \in DOMAIN nds \ gone |-> removeHash(nds[k], hash)]

\* the walk of the block directory over the entries todo, nds the nodes still
\* tracked, blks the block files; the os.Remove of block failAt fails
\* (a variant that ends the walk at the first block it removes)
RECURSIVE blockWalkOne(_, _, _, _)
blockWalkOne(todo, nds, blks, failAt) ==
    IF todo = <<>>
    THEN [nodes |-> nds, blocks |-> blks, err |-> FALSE]
    ELSE IF inUseBy(nds, Head(todo))
    THEN blockWalkOne(Tail(todo), dropHash(nds, Head(todo)), blks, failAt)
    ELSE [nodes |-> <<>>, err |-> FALSE,
          blocks |-> Restrict(blks, DOMAIN blks \ {Head(todo)})]
RECURSIVE blockWalk(_, _, _, _)
blockWalk(todo, nds, blks, failAt) ==
    IF todo = <<>>
    THEN [nodes |-> nds, blocks |-> blks, err |-> FALSE]
    ELSE LET hash == Head(todo)
             nds2 == dropHash(nds, hash)
         IN IF inUseBy(nds, hash)
            THEN blockWalk(Tail(todo), nds2, blks, failAt)
            ELSE IF BlockFault(hash) = failAt
            THEN \* onceErr is set: the callbacks that follow return at once
                 [nodes |-> nds2, blocks |-> blks, err |-> TRUE]
            ELSE blockWalk(Tail(todo), nds2,
                           Restrict(blks, DOMAIN blks \ {hash}), failAt)

\* the walk of the node directory: every node file is opened and parsed
\* into the map of tracked nodes, unless one cannot be opened or parsed
nodeWalk(nds, fault) ==
    IF \/ fault = NodeFault /\ DOMAIN nds # {}
       \/ \E k \in DOMAIN nds : nodeWriter(nds[k], <<>>, <<>>).err # "nil"
    THEN [nodes |-> <<>>, err |-> TRUE]
    ELSE [nodes |-> [k \in DOMAIN nds |-> nodeWriter(nds[k], <<>>, <<>>).hashes],
          err |-> FALSE]

\* Clean past the lock check: the node and block files it leaves, what it
\* returns and the block files it removed
\* (variants: one reports the first corrupt key only, one unlinks the node
\* files of the corrupt keys, one goes on to the block walk after a failed
\* node walk)
cleanRunFailFast(nds, blks, fault) ==
    LET n == nodeWalk(nds, fault)
    IN IF n.err
       THEN [nodes |-> nds, blocks |-> blks, res |-> "IOError", corrupt |-> {}]
       ELSE LET w == blockWalk(sorted(DOMAIN blks), n.nodes, blks, fault)
            IN IF w.err
               THEN [nodes |-> nds, blocks |-> w.blocks, res |-> "IOError",
                     corrupt |-> {}]
               ELSE IF Cardinality(DOMAIN w.nodes) > 0
               THEN [nodes |-> nds, blocks |-> w.blocks, res |-> "corrupt",
                     corrupt |-> {CHOOSE k \in DOMAIN w.nodes : TRUE}]
               ELSE [nodes |-> nds, blocks |-> w.blocks, res |-> "ok",
                     corrupt |-> {}]
cleanRunDropsCorrupt(nds, blks, fault) ==
    LET n == nodeWalk(nds, fault)
    IN IF n.err
       THEN [nodes |-> nds, blocks |-> blks, res |-> "IOError", corrupt |-> {}]
       ELSE LET w == blockWalk(sorted(DOMAIN blks), n.nodes, blks, fault)
            IN IF w.err
               THEN [nodes |-> nds, blocks |-> w.blocks, res |-> "IOError",
                     corrupt |-> {}]
               ELSE IF Cardinality(DOMAIN w.nodes) > 0
               THEN [nodes |-> Restrict(nds, DOMAIN nds \ DOMAIN w.nodes),
                     blocks |-> w.blocks, res |-> "corrupt",
                     corrupt |-> DOMAIN w.nodes]
               ELSE [nodes |-> nds, blocks |-> w.blocks, res |-> "ok",
                     corrupt |-> {}]
cleanRunWalksOn(nds, blks, fault) ==
    LET n == nodeWalk(nds, fault)
        w == blockWalk(sorted(DOMAIN blks), n.nodes, blks, fault)
    IN IF n.err \/ w.err
       THEN [nodes |-> nds, blocks |-> w.blocks, res |-> "IOError",
             corrupt |-> {}]
       ELSE IF Cardinality(DOMAIN w.nodes) > 0
       THEN [nodes |-> nds, blocks |-> w.blocks, res |-> "corrupt",
             corrupt |-> DOMAIN w.nodes]
       ELSE [nodes |-> nds, blocks |-> w.blocks, res |-> "ok",
             corrupt |-> {}]
cleanRun(nds, blks, fault) ==
    LET n == nodeWalk(nds, fault)
    IN IF n.err
       THEN [nodes |-> nds, blocks |-> blks, res |-> "IOError", corrupt |-> {}]
       ELSE LET w == blockWalk(sorted(DOMAIN blks), n.nodes, blks, fault)
            IN IF w.err
               THEN [nodes |-> nds, blocks |-> w.blocks, res |-> "IOError",
                     corrupt |-> {}]
               ELSE IF Cardinality(DOMAIN w.nodes) > 0
               THEN [nodes |-> nds, blocks |-> w.blocks, res |-> "corrupt",
                     corrupt |-> DOMAIN w.nodes]
               ELSE [nodes |-> nds, blocks |-> w.blocks, res |-> "ok",
                     corrupt |-> {}]

Clean ==
    \E fault \in IF closed THEN {NoFault}
                  ELSE {NoFault, NodeFault} \cup {BlockFault(h) : h \in DOMAIN blocks} :
        /\ IF closed
           THEN /\ last' = CleanOp("ErrClosed", {}, FALSE, {}, last.op = "Clean")
                /\ UNCHANGED <<nodes, blocks>>
           ELSE LET c == cleanRun(nodes, blocks, fault)
                IN /\ nodes' = c.nodes
                   /\ blocks' = c.blocks
                   /\ last' = CleanOp(c.res, c.corrupt, TRUE,
                                      DOMAIN blocks \ DOMAIN c.blocks,
                                      last.op = "Clean")
        /\ UNCHANGED <<nodeDir, blockDir, pool, cwdFiles,
                       overwrite, closed, inflight>>
        /\ UNCHANGED conc
        /\ UNCHANGED parts

----------------------------------------------------------------------------
(* The environment *)

\* a block file is deleted by hand, behind the store's back
TamperDeleteBlock ==
    \E hash \in DOMAIN blocks :
        /\ blocks' = Restrict(blocks, DOMAIN blocks \ {hash})
        /\ last' = Op("Tamper", <<>>, <<>>, "ok", <<>>, <<>>, {}, FALSE, TRUE)
        /\ UNCHANGED <<nodes, nodeDir, blockDir, pool, cwdFiles,
                       overwrite, closed, inflight>>
        /\ UNCHANGED conc
        /\ UNCHANGED parts

----------------------------------------------------------------------------
(* KVIterator (kv/iterator.go): the entries of the store at the time the      *)
(* iterator was made, the index of the current entry and its key.  The        *)
(* record also keeps what the methods returned: ok of Next, out of Key, err   *)
(* of Value, whether Value fetched from the store, and seen, the keys that    *)
(* Key() stood at after each Next that returned true.                         *)

\* most entries an iterator is made over
MaxEntries == 3

\* the keys of the entries
IterKeys == ValidKeys \cup {<<"c">>}

\* the entry lists an iterator is made over
EntryLists == UNION {[1..n -> IterKeys] : n \in 0..MaxEntries}

\* an iterator as the store hands it out: it holds the store's read lock and
\* stands before the first entry
newIterator(entries) ==
    [entries |-> entries, index |-> -1, key |-> <<>>, store |-> TRUE,
     held |-> TRUE, op |-> "new", ok |-> FALSE, out |-> <<>>, err |-> "nil",
     fetched |-> FALSE, seen |-> <<>>]

\* no iterator is in use
NoIter == [newIterator(<<>>) EXCEPT !.store = FALSE, !.held = FALSE, !.op = "none"]

\* the bound check of Next: there is no entry at index next (entries are
\* numbered from 0 in the code)
\* (a variant that is off by one)
pastEndOffByOne(next, entries) == next + 1 >= Len(entries)
pastEnd(next, entries) == next >= Len(entries)

\* KVIterator.Next
iterNext(i) ==
    LET next == i.index + 1
    IN IF pastEnd(next, i.entries)
       THEN [i EXCEPT !.key = <<>>, !.op = "Next", !.ok = FALSE]
       ELSE [i EXCEPT !.key = i.entries[next + 1], !.index = next,
                      !.op = "Next", !.ok = TRUE,
                      !.seen = Append(i.seen, i.entries[next + 1])]

\* KVIterator.Key
iterKey(i) == [i EXCEPT !.op = "Key", !.out = i.key]

\* KVStore.get under the read lock of the key: the value, or an error of the
\* storage
storeGet(key) == {"nil", "ErrNotFound"}

\* the nil check of Value: the iterator has been released
\* (a variant that never finds the iterator released)
iterClosedNever(i) == FALSE
iterClosed(i) == ~ i.store

\* KVIterator.Value
iterValue(i) ==
    IF iterClosed(i)
    THEN {[i EXCEPT !.op = "Value", !.err = "ErrIteratorClosed",
                    !.fetched = FALSE]}
    ELSE {[i EXCEPT !.op = "Value", !.err = e, !.fetched = TRUE] :
             e \in storeGet(i.key)}

\* KVIterator.Release: state.UnlockMap() gives up the store's read lock
iterRelease(i) ==
    [i EXCEPT !.held = FALSE, !.store = FALSE, !.key = <<>>,
              !.entries = <<>>, !.op = "Release"]

----------------------------------------------------------------------------
(* The node codec, byte by byte.  Here a hash is its encoded string, of      *)
(* encodedLen bytes, none of them the separator; nodeReader.Read fills the   *)
(* buffers a caller passes, nodeWriter.Write takes the pieces of a stream.   *)

\* the length of an encoded hash, scaled down from 44
encodedLen == 3
\* most hashes of a node that is serialised
MaxHashes == 2
\* largest buffer passed to nodeReader.Read
MaxDst == 4
\* longest stream fed to nodeWriter.Write
MaxStream == 8

\* the encoded hashes that occur in the nodes that are serialised
EncodedHashes == {<<1, 2, 3>>, <<4, 5, 6>>}
HashLists == UNION {[1..n -> EncodedHashes] : n \in 0..MaxHashes}

\* the bytes of the streams that are parsed: the separator and two others
StreamBytes == {hashSeparator, 1, 2}
Streams == UNION {[1..n -> StreamBytes] : n \in 0..MaxStream}

\* the bytes of a run that are kept for comparison
MaxOut == (MaxHashes + 1) * (encodedLen + 1)

\* the resume offset nodeReader.Read stores when buffer b is full in the
\* middle of a hash: the code stores m, the bytes copied by this call, and
\* not the offset r.last + m reached within the hash
resumeAt(rlast, m) == m

\* the loop of nodeReader.Read: n bytes of b are written so far (they are
\* bytes); idx and rlast (r.last) are the reader's fields
RECURSIVE nodeReaderLoop(_, _, _, _, _)
nodeReaderLoop(hashes, idx, rlast, size, bytes) ==
    IF ~ (idx < Len(hashes))
    THEN [idx |-> idx, last |-> rlast, bytes |-> bytes, eof |-> TRUE]
    ELSE LET hash == hashes[idx + 1]
             n == Len(bytes)
             m == Min(size - n, Len(hash) - rlast)
             n2 == n + m
             bytes2 == bytes \o SubSeq(hash, rlast + 1, rlast + m)
         IN IF m < Len(hash) - rlast
            THEN [idx |-> idx, last |-> resumeAt(rlast, m), bytes |-> bytes2,
                  eof |-> FALSE]
            ELSE IF n2 = size
            THEN [idx |-> idx, last |-> -1, bytes |-> bytes2, eof |-> FALSE]
            ELSE nodeReaderLoop(hashes, idx + 1, 0, size,
                                Append(bytes2, hashSeparator))

\* nodeReader.Read(b) with len(b) = size: the separator that did not fit in
\* the last call is written first
nodeReaderRead(hashes, idx, rlast, size) ==
    IF rlast = -1
    THEN nodeReaderLoop(hashes, idx, 0, size, <<hashSeparator>>)
    ELSE nodeReaderLoop(hashes, idx, rlast, size, <<>>)

\* a nodeReader over hashes, before its first Read; out are the bytes read
\* from it so far, n the count the last Read returned and over whether more
\* than MaxOut bytes were read
newNodeReader(hashes) ==
    [active |-> TRUE, hashes |-> hashes, idx |-> 0, last |-> 0, out |-> <<>>,
     n |-> 0, eof |-> FALSE, over |-> FALSE]

NoRead == [newNodeReader(<<>>) EXCEPT !.active = FALSE]

\* the first separator of b, 0 when it has none (bytes.IndexByte)
indexByte(b) ==
    IF \A i \in DOMAIN b : b[i] # hashSeparator THEN 0
    ELSE CHOOSE i \in DOMAIN b :
           /\ b[i] = hashSeparator
           /\ \A j \in 1..(i - 1) : b[j] # hashSeparator

\* nodeWriter.Write(b): buf holds the bytes taken since the last separator
RECURSIVE nodeWriterWrite(_, _, _)
nodeWriterWrite(b, buf, hashes) ==
    LET idx == indexByte(b)
    IN IF idx = 0
       THEN IF Len(buf) > encodedLen
            THEN [err |-> "errInvalidNode", hashes |-> hashes, buf |-> buf]
            ELSE [err |-> "nil", hashes |-> hashes, buf |-> buf \o b]
       ELSE LET hash == buf \o SubSeq(b, 1, idx - 1)
            IN IF Len(hash) # encodedLen
               THEN [err |-> "errInvalidNode", hashes |-> hashes, buf |-> hash]
               ELSE nodeWriterWrite(SubSeq(b, idx + 1, Len(b)), <<>>,
                                    Append(hashes, hash))

\* the end of the copy into a nodeWriter: the source is at its end and the
\* copy returns nil; the bytes still held in buf are not looked at
copyEnd(buf) == "nil"

\* a nodeWriter with an empty buffer and the stream that will be copied to it
newNodeWriter(stream) ==
    [active |-> TRUE, stream |-> stream, rest |-> stream, buf |-> <<>>,
     hashes |-> <<>>, err |-> "nil", done |-> FALSE, pieces |-> 0]

NoWrite == [newNodeWriter(<<>>) EXCEPT !.active = FALSE]

----------------------------------------------------------------------------
(* The specification *)

\* the calls a program makes concurrently
MaxCalls == 2
Callers == 1..MaxCalls

\* the locals of a call: the operation, its key, the bytes val of its input
\* stream and whether the stream ends in a read error (fail) instead of
\* io.EOF, the bytes rest not read yet, where the call stands (pc), the
\* hashes of its node, the buffer buf of the pending read, its onceErr, its
\* result res and whether it ever ran while another call was running (overlap)
Call(op, key, val, fail, pc, hashes, res, overlap) ==
    [op |-> op, key |-> key, val |-> val, fail |-> fail, rest |-> val,
     pc |-> pc, hashes |-> hashes, buf |-> <<>>, onceErr |-> "nil",
     res |-> res, overlap |-> overlap]

Idle == Call("none", <<>>, <<>>, FALSE, "idle", <<>>, "none", FALSE)

\* OpenBlock on an empty directory, with either overwrite policy.  The working
\* directory may hold files named like keys; WriteStream looks at them only
\* when overwrite is disabled
Init ==
    /\ nodes = <<>>
    /\ blocks = <<>>
    /\ nodeDir = FALSE
    /\ blockDir = FALSE
    /\ pool = {}
    /\ overwrite \in BOOLEAN
    /\ cwdFiles \in SUBSET CwdCandidates
    /\ overwrite => cwdFiles = {}
    /\ closed = FALSE
    /\ inflight = 0
    /\ last = NoOp
    /\ calls = [c \in Callers |-> Idle]
    /\ writers = {}
    /\ iter = NoIter
    /\ rd = NoRead
    /\ wr = NoWrite

Next ==
    \/ Write
    \/ ReadBytes
    \/ Stat
    \/ Remove
    \/ WalkKeys
    \/ Clean
    \/ Close

\* the store used through its API only
Spec == Init /\ [][Next]_vars

NextTamper ==
    \/ Write
    \/ Remove
    \/ Clean
    \/ Close
    \/ TamperDeleteBlock

\* the operations that change the store's files or state, with block files
\* that may disappear behind its back
SpecTamper == Init /\ [][NextTamper]_vars

----------------------------------------------------------------------------
(* The store under concurrent calls.  A handler is split where another      *)
(* thread can interfere with it: WriteStream at the top of its chunk loop,  *)
(* at the return of io.ReadFull and at wg.Wait(); its chunk writers are     *)
(* goroutines of their own; a read stream lives from ReadStream to its      *)
(* Close; Close sets the lock closed and then waits for the counter.        *)

\* the file system state, without the working directory
files == <<nodes, blocks, nodeDir, blockDir>>

\* call c has entered and has not returned
running(c) == calls[c].pc \notin {"idle", "done"}

\* call c may start: the calls are numbered in the order they start
starts(c) ==
    /\ calls[c].pc = "idle"
    /\ \A d \in Callers : d < c => calls[d].pc # "idle"

\* the calls once call c has started with the locals rec
begin(c, rec) ==
    [d \in Callers |->
        IF d = c
        THEN [rec EXCEPT !.overlap = \E e \in Callers \ {c} : running(e)]
        ELSE IF running(d) /\ rec.pc # "done"
        THEN [calls[d] EXCEPT !.overlap = TRUE]
        ELSE calls[d]]

\* the error a failed chunk writer stores in onceErr: one per chunk
WriteErrs == <<"writeErr1", "writeErr2", "writeErr3">>
writeErr(i) == WriteErrs[Min(i, Len(WriteErrs))]

\* WriteStream up to the chunk loop: the lock, the existence check, MkdirAll
WriteStreamEnter(c) ==
    /\ starts(c)
    /\ \/ /\ \E key \in ValidKeys :
               /\ closed \/ (statKey(key, nodes, cwdFiles) /\ ~ overwrite)
               /\ calls' = begin(c, Call("Write", key, <<>>, FALSE, "done", <<>>,
                                         IF closed THEN "ErrClosed"
                                         ELSE "ErrAlreadyExists", FALSE))
          /\ UNCHANGED <<nodeDir, blockDir, inflight>>
       \/ /\ ~ closed
          /\ \E key \in ValidKeys, val \in Values, fail \in BOOLEAN :
               /\ ~ (statKey(key, nodes, cwdFiles) /\ ~ overwrite)
               /\ calls' = begin(c, Call("Write", key, val, fail, "loop", <<>>,
                                         "none", FALSE))
          /\ nodeDir' = TRUE
          /\ blockDir' = TRUE
          /\ inflight' = lockAdd(inflight)
    /\ UNCHANGED <<nodes, blocks, pool, cwdFiles, overwrite, closed, last, writers>>
    /\ UNCHANGED parts

\* the top of the chunk loop: for !onceErr.IsSet(), then bufpool.Get, Grow
\* and the call of io.ReadFull
WriteStreamLoop(c) ==
    /\ calls[c].op = "Write"
    /\ calls[c].pc = "loop"
    /\ IF calls[c].onceErr # "nil"
       THEN /\ calls' = [calls EXCEPT ![c].pc = "wait"]
            /\ UNCHANGED pool
       ELSE \E g \in bufGet(pool) :
              /\ pool' = g.pool
              /\ calls' = [calls EXCEPT ![c].pc = "read", ![c].buf = g.stale]
    /\ UNCHANGED <<nodes, blocks, nodeDir, blockDir, cwdFiles, overwrite,
                   closed, inflight, last, writers>>
    /\ UNCHANGED parts

\* io.ReadFull returns: a read error returns from WriteStream at once,
\* io.EOF leaves the loop; a chunk is hashed, its hash appended, and unless
\* statBlock finds it a chunk writer is started; a short chunk is the last
WriteStreamRead(c) ==
    LET cl == calls[c]
        n == Min(Len(cl.rest), BlockSize)
        buf == SubSeq(cl.rest, 1, n) \o SubSeq(cl.buf, n + 1, BlockSize)
        sum == chunkSum(buf, n)
        hs == Append(cl.hashes, sum)
    IN /\ cl.op = "Write"
       /\ cl.pc = "read"
       /\ IF n < BlockSize /\ cl.fail
          THEN \* default: Put(buf), return err; st.lock.Done() is deferred
               /\ pool' = bufPut(pool, buf)
               /\ calls' = [calls EXCEPT ![c] =
                              [cl EXCEPT !.pc = "done", !.res = "readErr",
                                         !.buf = <<>>]]
               /\ inflight' = lockDone(inflight)
               /\ UNCHANGED writers
          ELSE IF n = 0
          THEN \* io.EOF: Put(buf), break loop
               /\ pool' = bufPut(pool, buf)
               /\ calls' = [calls EXCEPT ![c] =
                              [cl EXCEPT !.pc = "wait", !.buf = <<>>]]
               /\ UNCHANGED <<inflight, writers>>
          ELSE \E has \in statBlock(sum, DOMAIN blocks, {}, writers) :
                 /\ calls' = [calls EXCEPT ![c] =
                                [cl EXCEPT !.rest = SubSeq(cl.rest, n + 1, Len(cl.rest)),
                                           !.hashes = hs,
                                           !.buf = <<>>,
                                           !.pc = IF ~ has /\ n < BlockSize
                                                  THEN "wait" ELSE "loop"]]
                 /\ IF has
                    THEN /\ pool' = bufPut(pool, buf)
                         /\ UNCHANGED writers
                    ELSE /\ writers' = writers \cup
                                {[call |-> c, i |-> Len(hs), sum |-> sum,
                                  n |-> n, buf |-> buf]}
                         /\ UNCHANGED pool
                 /\ UNCHANGED inflight
       /\ UNCHANGED <<nodes, blocks, nodeDir, blockDir, cwdFiles, overwrite,
                      closed, last>>
       /\ UNCHANGED parts

\* a chunk writer ends: writeBlock(sum, buf.B[:n]) has written the block
\* file, or its open failed, or its Write failed on the new, still empty
\* file; an error goes to onceErr, which keeps the first; Put(buf), wg.Done()
writeBlockDone ==
    \E w \in writers : \E out \in {"nil", "open", "write"} :
        /\ writers' = writers \ {w}
        /\ pool' = bufPut(pool, w.buf)
        /\ blocks' = IF out = "nil"
                     THEN (w.sum :> SubSeq(w.buf, 1, w.n)) @@ blocks
                     ELSE IF out = "write" /\ w.sum \notin DOMAIN blocks
                     THEN (w.sum :> <<>>) @@ blocks
                     ELSE blocks
        /\ calls' = IF /\ out # "nil"
                       /\ calls[w.call].pc # "done"
                       /\ calls[w.call].onceErr = "nil"
                    THEN [calls EXCEPT ![w.call].onceErr = writeErr(w.i)]
                    ELSE calls
        /\ UNCHANGED <<nodes, nodeDir, blockDir, cwdFiles, overwrite, closed,
                       inflight, last>>
        /\ UNCHANGED parts

\* open(npath, flags) with O_EXCL set when overwrite is disabled: whether
\* the open fails because the node file exists
\* (a variant that never sets O_EXCL)
openExclNever(nds, key, ow) == FALSE
openExcl(nds, key, ow) == ~ ow /\ key \in DOMAIN nds

\* wg.Wait() returns and WriteStream goes on to its end: the error of
\* onceErr, errNoHashesWritten, or the node file is opened and written
WriteStreamReturn(c) ==
    LET cl == calls[c]
        res == IF cl.onceErr # "nil" THEN cl.onceErr
               ELSE IF noHashes(cl.hashes) THEN "errNoHashesWritten"
               ELSE IF openExcl(nodes, cl.key, overwrite)
               THEN "ErrAlreadyExists"
               ELSE "ok"
    IN /\ cl.op = "Write"
       /\ cl.pc = "wait"
       /\ \A w \in writers : w.call # c
       /\ calls' = [calls EXCEPT ![c] = [cl EXCEPT !.pc = "done", !.res = res]]
       /\ nodes' = IF res = "ok" THEN writeNode(nodes, cl.key, cl.hashes)
                   ELSE nodes
       /\ inflight' = lockDone(inflight)
       /\ UNCHANGED <<blocks, nodeDir, blockDir, pool, cwdFiles, overwrite,
                      closed, last, writers>>
       /\ UNCHANGED parts

\* ReadStream: the lock, the node file is opened and parsed; the stream that
\* is returned holds the lock until it is closed
ReadStreamEnter(c) ==
    /\ starts(c)
    /\ \E key \in ValidKeys :
         LET rs == ReadStream(nodes, key)
         IN IF closed \/ rs.res # "ok"
            THEN /\ calls' = begin(c, Call("Read", key, <<>>, FALSE, "done", <<>>,
                                           IF closed THEN "ErrClosed" ELSE rs.res,
                                           FALSE))
                 /\ inflight' = readStreamLock(IF closed THEN "ErrClosed" ELSE rs.res,
                                               inflight)
            ELSE /\ calls' = begin(c, Call("Read", key, <<>>, FALSE, "stream",
                                           rs.hashes, "none", FALSE))
                 /\ inflight' = readStreamLock("ok", inflight)
    /\ UNCHANGED <<nodes, blocks, nodeDir, blockDir, pool, cwdFiles, overwrite,
                   closed, last, writers>>
    /\ UNCHANGED parts

\* blockReader.Read goes on to the next hash of the node: readBlock
blockReaderNext(c) ==
    /\ calls[c].op = "Read"
    /\ calls[c].pc = "stream"
    /\ calls[c].hashes # <<>>
    /\ calls' = [calls EXCEPT
                   ![c].hashes = Tail(@),
                   ![c].res = IF readBlock(blocks, Head(calls[c].hashes)).err # "nil"
                              THEN "errCorruptNode" ELSE @]
    /\ UNCHANGED <<nodes, blocks, nodeDir, blockDir, pool, cwdFiles, overwrite,
                   closed, inflight, last, writers>>
    /\ UNCHANGED parts

\* the caller closes the stream: the callback st.lock.Done runs
\* (a variant whose stream has no callback)
streamCloseNoCallback(c) ==
    /\ calls[c].op = "Read"
    /\ calls[c].pc = "stream"
    /\ calls' = [calls EXCEPT ![c].pc = "done",
                              ![c].res = IF @ = "none" THEN "ok" ELSE @]
    /\ UNCHANGED <<nodes, blocks, nodeDir, blockDir, pool, cwdFiles, overwrite,
                   closed, inflight, last, writers>>
    /\ UNCHANGED parts
streamClose(c) ==
    /\ calls[c].op = "Read"
    /\ calls[c].pc = "stream"
    /\ calls' = [calls EXCEPT ![c].pc = "done",
                              ![c].res = IF @ = "none" THEN "ok" ELSE @]
    /\ inflight' = lockDone(inflight)
    /\ UNCHANGED <<nodes, blocks, nodeDir, blockDir, pool, cwdFiles, overwrite,
                   closed, last, writers>>
    /\ UNCHANGED parts

\* Clean, from its entry to its return, its walks meeting no I/O error
CleanCall(c) ==
    /\ starts(c)
    /\ IF closed
       THEN /\ calls' = begin(c, Call("Clean", <<>>, <<>>, FALSE, "done", <<>>,
                                      "ErrClosed", FALSE))
            /\ UNCHANGED <<nodes, blocks>>
       ELSE LET r == cleanRun(nodes, blocks, NoFault)
            IN /\ nodes' = r.nodes
               /\ blocks' = r.blocks
               /\ calls' = begin(c, Call("Clean", <<>>, <<>>, FALSE, "done", <<>>,
                                         r.res, FALSE))
    /\ UNCHANGED <<nodeDir, blockDir, pool, cwdFiles, overwrite, closed,
                   inflight, last, writers>>
    /\ UNCHANGED parts

\* st.lock.Close(): the lock is set closed; the call then waits for the
\* in-flight counter
CloseEnter(c) ==
    /\ starts(c)
    /\ IF closed
       THEN /\ calls' = begin(c, Call("Close", <<>>, <<>>, FALSE, "done", <<>>,
                                      "ErrClosed", FALSE))
            /\ UNCHANGED closed
       ELSE /\ calls' = begin(c, Call("Close", <<>>, <<>>, FALSE, "drain", <<>>,
                                      "none", FALSE))
            /\ closed' = TRUE
    /\ UNCHANGED <<nodes, blocks, nodeDir, blockDir, pool, cwdFiles, overwrite,
                   inflight, last, writers>>
    /\ UNCHANGED parts

\* st.lock.Close() returns: no operation is in flight
CloseReturn(c) ==
    /\ calls[c].op = "Close"
    /\ calls[c].pc = "drain"
    /\ inflight = 0
    /\ calls' = [calls EXCEPT ![c].pc = "done", ![c].res = "ok"]
    /\ UNCHANGED <<nodes, blocks, nodeDir, blockDir, pool, cwdFiles, overwrite,
                   closed, inflight, last, writers>>
    /\ UNCHANGED parts



\* OpenBlock on an empty directory; no file of the working directory is named
\* like a key
InitConc ==
    /\ Init
    /\ cwdFiles = {}

NextConc ==
    \/ \E c \in Callers : WriteStreamEnter(c)
    \/ \E c \in Callers : WriteStreamLoop(c)
    \/ \E c \in Callers : WriteStreamRead(c)
    \/ writeBlockDone
    \/ \E c \in Callers : WriteStreamReturn(c)
    \/ \E c \in Callers : ReadStreamEnter(c)
    \/ \E c \in Callers : blockReaderNext(c)
    \/ \E c \in Callers : streamClose(c)
    \/ \E c \in Callers : CleanCall(c)
    \/ \E c \in Callers : CloseEnter(c)
    \/ \E c \in Callers : CloseReturn(c)

\* up to MaxCalls calls of a program, running concurrently
SpecConc == InitConc /\ [][NextConc]_vars

\* the end of WriteStream in its two steps on the node file.  The first:
\* wg.Wait() returns, then the error of onceErr or errNoHashesWritten is
\* returned, or open(npath, flags) fails on an existing file under O_EXCL,
\* or it leaves the node file on disk, empty
WriteStreamOpen(c) ==
    LET cl == calls[c]
        res == IF cl.onceErr # "nil" THEN cl.onceErr
               ELSE IF noHashes(cl.hashes) THEN "errNoHashesWritten"
               ELSE IF openExcl(nodes, cl.key, overwrite)
               THEN "ErrAlreadyExists"
               ELSE "ok"
    IN /\ cl.op = "Write"
       /\ cl.pc = "wait"
       /\ \A w \in writers : w.call # c
       /\ IF res = "ok"
          THEN /\ calls' = [calls EXCEPT ![c].pc = "copy"]
               /\ nodes' = writeNode(nodes, cl.key, <<>>)
               /\ UNCHANGED inflight
          ELSE /\ calls' = [calls EXCEPT ![c] = [cl EXCEPT !.pc = "done", !.res = res]]
               /\ inflight' = lockDone(inflight)
               /\ UNCHANGED nodes
       /\ UNCHANGED <<blocks, nodeDir, blockDir, pool, cwdFiles, overwrite,
                      closed, last, writers>>
       /\ UNCHANGED parts

\* the second: io.CopyBuffer(file, &nodeReader{node: &node}, nil) writes the
\* hashes to the node file, WriteStream returns and st.lock.Done() runs
WriteStreamCopy(c) ==
    /\ calls[c].op = "Write"
    /\ calls[c].pc = "copy"
    /\ nodes' = writeNode(nodes, calls[c].key, calls[c].hashes)
    /\ calls' = [calls EXCEPT ![c].pc = "done", ![c].res = "ok"]
    /\ inflight' = lockDone(inflight)
    /\ UNCHANGED <<blocks, nodeDir, blockDir, pool, cwdFiles, overwrite,
                   closed, last, writers>>
    /\ UNCHANGED parts

NextOpen ==
    \/ \E c \in Callers : WriteStreamEnter(c)
    \/ \E c \in Callers : WriteStreamLoop(c)
    \/ \E c \in Callers : WriteStreamRead(c)
    \/ writeBlockDone
    \/ \E c \in Callers : WriteStreamOpen(c)
    \/ \E c \in Callers : WriteStreamCopy(c)
    \/ \E c \in Callers : ReadStreamEnter(c)
    \/ \E c \in Callers : blockReaderNext(c)
    \/ \E c \in Callers : streamClose(c)

\* up to MaxCalls writes and reads running concurrently, the node file of a
\* write created by its open and filled by its copy
SpecOpen == InitConc /\ [][NextOpen]_vars

----------------------------------------------------------------------------
(* The iterator and the node codec on their own: the store's files and      *)
(* calls stay as OpenBlock left them.                                        *)

storeVars == <<nodes, blocks, nodeDir, blockDir, pool, cwdFiles, overwrite,
               closed, inflight, last, calls, writers>>

\* the store right after OpenBlock, overwrite disabled
storeFresh ==
    /\ nodes = <<>>
    /\ blocks = <<>>
    /\ nodeDir = FALSE
    /\ blockDir = FALSE
    /\ pool = {}
    /\ overwrite = FALSE
    /\ cwdFiles = {}
    /\ closed = FALSE
    /\ inflight = 0
    /\ last = NoOp
    /\ calls = [c \in Callers |-> Idle]
    /\ writers = {}

KVIteratorNext ==
    /\ iter.op # "none"
    /\ iter' = iterNext(iter)
    /\ UNCHANGED <<storeVars, rd, wr>>

KVIteratorKey ==
    /\ iter.op # "none"
    /\ iter' = iterKey(iter)
    /\ UNCHANGED <<storeVars, rd, wr>>

KVIteratorValue ==
    /\ iter.op # "none"
    /\ iter' \in iterValue(iter)
    /\ UNCHANGED <<storeVars, rd, wr>>

\* Release is called once: what a second state.UnlockMap() does is left to
\* the lock
KVIteratorRelease ==
    /\ iter.op # "none"
    /\ iter.store
    /\ iter' = iterRelease(iter)
    /\ UNCHANGED <<storeVars, rd, wr>>

InitIter ==
    /\ storeFresh
    /\ iter \in {newIterator(e) : e \in EntryLists}
    /\ rd = NoRead
    /\ wr = NoWrite

NextIter ==
    \/ KVIteratorNext
    \/ KVIteratorKey
    \/ KVIteratorValue
    \/ KVIteratorRelease

\* one iterator, its methods called in any order
SpecIter == InitIter /\ [][NextIter]_vars

\* one Read of the node reader into a buffer of any size from 1 to MaxDst
ReadNode ==
    /\ rd.active
    /\ ~ rd.eof
    /\ \E size \in 1..MaxDst :
         LET r == nodeReaderRead(rd.hashes, rd.idx, rd.last, size)
             fits == Len(rd.out) + Len(r.bytes) <= MaxOut
         IN rd' = [rd EXCEPT !.idx = r.idx, !.last = r.last,
                             !.n = Len(r.bytes), !.eof = r.eof,
                             !.out = IF fits THEN rd.out \o r.bytes ELSE rd.out,
                             !.over = rd.over \/ ~ fits]
    /\ UNCHANGED <<storeVars, iter, wr>>

InitNodeReader ==
    /\ storeFresh
    /\ iter = NoIter
    /\ rd \in {newNodeReader(h) : h \in HashLists}
    /\ wr = NoWrite

NextNodeReader == ReadNode

\* a node is read out through buffers of any sizes
SpecNodeReader == InitNodeReader /\ [][NextNodeReader]_vars

\* the caller goes on reading until the end of the stream
SpecNodeReaderFair == SpecNodeReader /\ WF_vars(NextNodeReader)

\* one Write of the next piece of the stream, of any length from 1 byte to
\* all that is left; the copy ends at the first error
WritePiece ==
    /\ wr.active
    /\ ~ wr.done
    /\ wr.rest # <<>>
    /\ \E k \in 1..Len(wr.rest) :
         LET w == nodeWriterWrite(SubSeq(wr.rest, 1, k), wr.buf, wr.hashes)
         IN wr' = [wr EXCEPT !.rest = SubSeq(wr.rest, k + 1, Len(wr.rest)),
                             !.buf = w.buf, !.hashes = w.hashes,
                             !.err = w.err, !.done = w.err # "nil",
                             !.pieces = wr.pieces + 1]
    /\ UNCHANGED <<storeVars, iter, rd>>

\* the source of the copy is at its end
CopyEnd ==
    /\ wr.active
    /\ ~ wr.done
    /\ wr.rest = <<>>
    /\ wr' = [wr EXCEPT !.err = copyEnd(wr.buf), !.done = TRUE]
    /\ UNCHANGED <<storeVars, iter, rd>>

InitNodeWriter ==
    /\ storeFresh
    /\ iter = NoIter
    /\ rd = NoRead
    /\ wr \in {newNodeWriter(st) : st \in Streams}

NextNodeWriter ==
    \/ WritePiece
    \/ CopyEnd

\* a node file is parsed, its bytes arriving in pieces of any lengths
SpecNodeWriter == InitNodeWriter /\ [][NextNodeWriter]_vars

----------------------------------------------------------------------------
(* The store with I/O faults at the node file.                               *)

\* the node files after open(npath, flags) has created or truncated the
\* file of key and the copy of the hashes has failed at its first write
writeNodeFailed(nds, key) ==
    [k \in DOMAIN nds \cup {key} |-> IF k = key THEN <<>> ELSE nds[k]]

\* a WriteStream whose chunks are stored and whose node file is opened, but
\* the copy of the node into the file fails: the error is returned and the
\* file stays as the open left it
WriteNodeError ==
    /\ ~ closed
    /\ \E val \in Values :
       \E o \in chunkLoop(val, <<>>, DOMAIN blocks, <<>>, {}, {}, pool) :
       \E key \in ValidKeys :
          /\ ~ (statKey(key, nodes, cwdFiles) /\ ~ overwrite)
          /\ ~ noHashes(o.hashes)
          /\ ~ openExcl(nodes, key, overwrite)
          /\ nodeDir' = TRUE
          /\ blockDir' = TRUE
          /\ blocks' = blocks @@ o.written
          /\ pool' = o.pool
          /\ nodes' = writeNodeFailed(nodes, key)
          /\ last' = Op("Write", key, val, "IOError", o.hashes, <<>>, {},
                        TRUE, TRUE)
    /\ UNCHANGED <<cwdFiles, overwrite, closed, inflight>>
    /\ UNCHANGED conc
    /\ UNCHANGED parts

NextNodeFault ==
    \/ Write
    \/ WriteNodeError
    \/ Clean
    \/ TamperDeleteBlock

\* Write and Clean, with writes of the node file that may fail and block
\* files that may disappear
SpecNodeFault == Init /\ [][NextNodeFault]_vars

----------------------------------------------------------------------------
(* The store with node files that are damaged on disk.                       *)

\* a node file is damaged behind the store's back: a stray separator stands
\* before its first hash
TamperCorruptNode ==
    \E key \in DOMAIN nodes :
        /\ nodeWriter(nodes[key], <<>>, <<>>).err = "nil"
        /\ nodes' = [nodes EXCEPT ![key] = <<hashSeparator>> \o nodes[key]]
        /\ last' = Op("Tamper", <<>>, <<>>, "ok", <<>>, <<>>, {}, FALSE, TRUE)
        /\ UNCHANGED <<blocks, nodeDir, blockDir, pool, cwdFiles,
                       overwrite, closed, inflight>>
        /\ UNCHANGED conc
        /\ UNCHANGED parts

NextCorrupt ==
    \/ Write
    \/ Clean
    \/ TamperCorruptNode

\* Write and Clean, with node files that may be damaged
SpecCorrupt == Init /\ [][NextCorrupt]_vars

----------------------------------------------------------------------------
(* Properties *)

\* the hashes listed in a node file
listed(file) == Range(file) \ {hashSeparator}

\* the hashes that the node files nds reference
referenced(nds) == UNION {listed(nds[k]) : k \in DOMAIN nds}

\* the keys whose node file references a hash that has no block file
dangling(nds, blks) ==
    {k \in DOMAIN nds : \E h \in listed(nds[k]) : h \notin DOMAIN blks}

\* the successive chunks of at most BlockSize bytes of a value
RECURSIVE chunksOf(_)
chunksOf(val) ==
    IF val = <<>> THEN <<>>
    ELSE <<SubSeq(val, 1, Min(Len(val), BlockSize))>>
            \o chunksOf(SubSeq(val, Min(Len(val), BlockSize) + 1, Len(val)))

\* C1: round trip.  After a successful Write(key, v), reading the key yields
\* exactly v, whatever the sizes of the read buffers.
C1_RoundTrip ==
    (last.op = "Write" /\ last.res = "ok")
        => \A sched \in Scheds :
             readKey(nodes, blocks, last.key, sched)
                = [res |-> "ok", out |-> last.val]

\* C2: overwrite disabled.  A Write to a key whose node file exists fails
\* with AlreadyExists, for every input stream, and the key reads back as
\* before.
C2_OverwriteDisabled ==
    [][(/\ last'.op = "Write"
        /\ ~ overwrite
        /\ ~ closed
        /\ last'.key \in DOMAIN nodes)
          => (/\ last'.res = "ErrAlreadyExists"
              /\ \A sched \in Scheds :
                   readKey(nodes', blocks', last'.key, sched)
                      = readKey(nodes, blocks, last'.key, sched))]_vars

\* C3: overwrite enabled.  After a successful second Write(key, v2) the node
\* file holds the hashes of v2 only and reading the key yields exactly v2.
C3_OverwriteReplaces ==
    [][(/\ last'.op = "Write"
        /\ last'.res = "ok"
        /\ overwrite
        /\ last'.key \in DOMAIN nodes)
          => (/\ SelectSeq(nodes'[last'.key], LAMBDA x : x # hashSeparator)
                   = last'.hashes
              /\ Len(last'.hashes) = Len(chunksOf(last'.val))
              /\ \A sched \in Scheds :
                   readKey(nodes', blocks', last'.key, sched)
                      = [res |-> "ok", out |-> last'.val])]_vars

\* C4: invalid keys.  Write, Read, Stat and Remove reject a key that holds a
\* path separator or is "." or ".." with InvalidKey, before the store lock is
\* entered and before any file system access; no file or directory changes.
C4_InvalidKeyRejected ==
    [][(/\ last'.op \in {"Write", "Read", "Stat", "Remove"}
        /\ last'.key \in InvalidKeys)
          => (/\ last'.res = "ErrInvalidKey"
              /\ ~ last'.locked
              /\ ~ last'.fs
              /\ inflight' = inflight
              /\ nodes' = nodes
              /\ blocks' = blocks
              /\ nodeDir' = nodeDir
              /\ blockDir' = blockDir)]_vars

\* C4 witness: an invalid key was rejected by a store that holds data.
C4_Witness ==
    /\ last.op = "Write"
    /\ last.key = <<".", ".">>
    /\ last.res = "ErrInvalidKey"
    /\ DOMAIN nodes # {}
    /\ ~ closed

\* C5: dedup.  Chunks with identical bytes get the same block hash, inside
\* one Write and across Writes, full or short, so that there is exactly one
\* block file per distinct chunk content.
C5_Dedup ==
    /\ \A h1, h2 \in DOMAIN blocks : blocks[h1] = blocks[h2] => h1 = h2
    /\ (last.op = "Write" /\ last.hashes # <<>>)
         => LET cs == chunksOf(last.val)
            IN /\ \A i, j \in DOMAIN cs :
                    cs[i] = cs[j] => last.hashes[i] = last.hashes[j]
               /\ \A i \in DOMAIN cs : \A h \in DOMAIN blocks :
                    blocks[h] = cs[i] => h = last.hashes[i]

\* C6: Clean deletes exactly the unreferenced blocks.  When Clean returns
\* (nil or the corruption error), a block file exists iff it existed before
\* and some node file references it, and it holds what it held; on every
\* outcome no referenced block is deleted.
C6_CleanExact ==
    [][(last'.op = "Clean")
          => (/\ \A h \in DOMAIN blocks \cap referenced(nodes) :
                   h \in DOMAIN blocks' /\ blocks'[h] = blocks[h]
              /\ DOMAIN blocks' \subseteq DOMAIN blocks
              /\ last'.res \in {"ok", "corrupt"}
                   => DOMAIN blocks' = DOMAIN blocks \cap referenced(nodes))]_vars

\* C6 witness: a Clean removed an unreferenced block and kept a block that
\* two keys share.
C6_Witness ==
    /\ last.op = "Clean"
    /\ last.res = "ok"
    /\ last.removed # {}
    /\ \E h \in DOMAIN blocks :
         \A k \in ValidKeys : k \in DOMAIN nodes /\ h \in listed(nodes[k])

\* C7: Clean is idempotent.  A Clean that directly follows a Clean, both
\* returning nil or the corruption error, removes no block file and returns
\* what the first returned.
C7_CleanIdempotent ==
    [][(/\ last.op = "Clean"
        /\ last.res \in {"ok", "corrupt"}
        /\ last'.op = "Clean"
        /\ last'.res \in {"ok", "corrupt"})
          => (/\ blocks' = blocks
              /\ last'.removed = {}
              /\ last'.res = last.res
              /\ last'.corrupt = last.corrupt)]_vars

\* C7 witness: the second of two successive Cleans on a store that holds
\* block files and a corrupt key; it removed nothing.
C7_Witness ==
    /\ last.op = "Clean"
    /\ last.again
    /\ last.res = "corrupt"
    /\ last.removed = {}
    /\ DOMAIN blocks # {}

\* C8: corruption detection.  When some node file references a hash without
\* a block file, a Clean (on the open store, its walks meeting no I/O error)
\* returns the corruption error naming every such key, having removed every
\* unreferenced block.
C8_CorruptionReported ==
    [][(/\ last'.op = "Clean"
        /\ ~ closed
        /\ last'.res # "IOError"
        /\ dangling(nodes, blocks) # {})
          => (/\ last'.res = "corrupt"
              /\ last'.corrupt = dangling(nodes, blocks)
              /\ DOMAIN blocks' = DOMAIN blocks \cap referenced(nodes))]_vars

\* C8 witness: a Clean reported two corrupt keys after removing a block.
C8_Witness ==
    /\ last.op = "Clean"
    /\ last.res = "corrupt"
    /\ Cardinality(last.corrupt) = 2
    /\ last.removed # {}

\* C9: Clean leaves the node files alone, on every outcome.
C9_CleanKeepsNodes ==
    [][(last'.op = "Clean") => (nodes' = nodes /\ nodeDir' = nodeDir)]_vars

\* C9 witness: a Clean that reported a corrupt key; its node file is there.
C9_Witness ==
    /\ last.op = "Clean"
    /\ last.res = "corrupt"
    /\ last.corrupt \subseteq DOMAIN nodes
    /\ last.corrupt # {}

\* C10: node-reference invariant.  Under Write, Remove and Clean alone (Spec
\* has no tampering), every hash in every node file has a block file.
C10_NodeReference ==
    dangling(nodes, blocks) = {}

\* C10 witness: Writes to two keys were followed by a Clean that removed a
\* block, with no tampering.
C10_Witness ==
    /\ last.op = "Clean"
    /\ last.removed # {}
    /\ DOMAIN nodes = ValidKeys

LockedOps == {"Write", "Read", "Stat", "Remove", "Clean", "WalkKeys"}

\* C14 as stated: closed store.  Every operation invoked on a closed store
\* fails with Closed, for every argument including an invalid key, and
\* accesses no file.
C14_ClosedAlways ==
    [][(closed /\ last'.op \in LockedOps)
          => (/\ last'.res = "ErrClosed"
              /\ ~ last'.fs
              /\ nodes' = nodes /\ blocks' = blocks
              /\ nodeDir' = nodeDir /\ blockDir' = blockDir)]_vars

\* C14 amended: every operation invoked on a closed store accesses no file
\* and fails: with Closed when it takes no key or a valid key, with InvalidKey
\* when its key is invalid (the key is checked before the lock).
C14_ClosedOrInvalidKey ==
    [][(closed /\ last'.op \in LockedOps)
          => (/\ last'.res = IF last'.key \in InvalidKeys
                              THEN "ErrInvalidKey" ELSE "ErrClosed"
              /\ ~ last'.fs
              /\ nodes' = nodes /\ blocks' = blocks
              /\ nodeDir' = nodeDir /\ blockDir' = blockDir)]_vars

\* C14 witness: a WalkKeys on a closed store that holds two keys failed with
\* Closed and walked no key.
C14_Witness ==
    /\ closed
    /\ last.op = "WalkKeys"
    /\ last.res = "ErrClosed"
    /\ last.walked = {}
    /\ DOMAIN nodes = ValidKeys

\* C16: hash order.  After a successful Write the node file lists one hash
\* per chunk, in the order the chunks were read: the i-th hash is the hash
\* of a buffer that starts with the bytes of the i-th chunk of the input,
\* whichever chunk writers finished first and whichever chunks were found on
\* disk.
C16_HashOrder ==
    (last.op = "Write" /\ last.res = "ok")
        => LET cs == chunksOf(last.val)
               hs == nodeWriter(nodes[last.key], <<>>, <<>>).hashes
           IN /\ hs = last.hashes
              /\ Len(hs) = Len(cs)
              /\ \A i \in DOMAIN cs :
                   \E b \in Buffers :
                      /\ EncodeSum(b) = hs[i]
                      /\ SubSeq(b, 1, Len(cs[i])) = cs[i]

\* C16 witness: a Write of two different chunks, the first of which was
\* already on disk (a dedup hit), succeeded.
C16_Witness ==
    /\ last.op = "Write"
    /\ last.res = "ok"
    /\ Len(last.hashes) = 2
    /\ last.hashes[1] # last.hashes[2]
    /\ \E k \in DOMAIN nodes \ {last.key} : last.hashes[1] \in listed(nodes[k])
    /\ last.hashes[2] \notin referenced(Restrict(nodes, DOMAIN nodes \ {last.key}))

\* C19: absent key.  Read and Remove of a valid key that has no node file
\* (on an open store) fail with NotFound, change no node or block file and
\* leave the in-flight counter as it was before the call.
C19_AbsentKey ==
    [][(/\ last'.op \in {"Read", "Remove"}
        /\ nodePathForKey(last'.key)
        /\ ~ closed
        /\ last'.key \notin DOMAIN nodes)
          => (/\ last'.res = "ErrNotFound"
              /\ nodes' = nodes
              /\ blocks' = blocks
              /\ inflight' = inflight)]_vars

\* C19 witness: a Read of an absent key failed with NotFound on a store that
\* holds the other key.
C19_Witness ==
    /\ last.op = "Read"
    /\ last.res = "ErrNotFound"
    /\ last.key \notin DOMAIN nodes
    /\ DOMAIN nodes # {}
    /\ inflight = 0

\* the bytes of the blocks that precede the first missing block of hashes
RECURSIVE blocksBefore(_, _)
blocksBefore(blks, hashes) ==
    IF hashes = <<>> \/ Head(hashes) \notin DOMAIN blks THEN <<>>
    ELSE blks[Head(hashes)] \o blocksBefore(blks, Tail(hashes))

\* C20: lazy corruption detection.  For a key whose node file is well formed
\* but references a missing block, ReadStream succeeds, and reading the
\* stream delivers all bytes of the blocks before the missing one, in order,
\* and then fails with CorruptNode, whatever the sizes of the read buffers.
C20_LazyCorruption ==
    \A key \in dangling(nodes, blocks) :
        LET rs == ReadStream(nodes, key)
        IN /\ rs.res = "ok"
           /\ \A sched \in Scheds :
                readKey(nodes, blocks, key, sched)
                   = [res |-> "errCorruptNode",
                      out |-> blocksBefore(blocks, rs.hashes)]

\* the calls of operation op
callsOf(op) == {c \in Callers : calls[c].op = op}

\* every call has returned and every chunk writer has ended
quiescent ==
    /\ \A c \in Callers : calls[c].pc = "done"
    /\ writers = {}

\* C11: concurrent writers to distinct keys.  When all calls are Writes of
\* non-empty contents to pairwise distinct keys that ran concurrently, with
\* no read error and no failed chunk writer, every Write returns nil and
\* afterwards every key reads back exactly the value written to it.
C11_DistinctKeys ==
    (/\ quiescent
     /\ callsOf("Write") = Callers
     /\ \A c, d \in Callers : c # d => calls[c].key # calls[d].key
     /\ \A c \in Callers :
          /\ calls[c].overlap
          /\ calls[c].val # <<>>
          /\ ~ calls[c].fail
          /\ calls[c].onceErr = "nil")
        => \A c \in Callers :
             /\ calls[c].res = "ok"
             /\ \A sched \in Scheds :
                  readKey(nodes, blocks, calls[c].key, sched)
                     = [res |-> "ok", out |-> calls[c].val]

\* call c is a Write that returned an error
failedWrite(c) ==
    /\ calls[c].op = "Write"
    /\ calls[c].pc = "done"
    /\ calls[c].res # "ok"

\* call c is a Clean that returned nil, ran after every earlier call had
\* returned, one of them a failed Write, and no call has started since
cleanAfterFailure(c) ==
    /\ calls[c].op = "Clean"
    /\ calls[c].res = "ok"
    /\ ~ calls[c].overlap
    /\ \E d \in Callers : d < c /\ failedWrite(d)
    /\ \A d \in Callers : d > c => calls[d].pc = "idle"

\* C12: failed writes.  The return of a Write with an error creates or
\* changes no node file, and once the next Clean has returned, no block file
\* is left that no node references.
C12_FailedWrite ==
    [][/\ \A c \in Callers :
            (calls[c].pc # "done" /\ calls'[c].pc = "done"
               /\ calls'[c].op = "Write" /\ calls'[c].res # "ok")
              => nodes' = nodes
       /\ (\E c \in Callers : cleanAfterFailure(c)')
            => DOMAIN blocks' \subseteq referenced(nodes')]_vars

\* the Close that closed the store has returned
closeReturned ==
    \E c \in Callers :
        calls[c].op = "Close" /\ calls[c].pc = "done" /\ calls[c].res = "ok"

\* C15: Close drains.  When Close has returned, no call that entered the
\* open store is still running, a read stream that is not closed included;
\* and from then on no call that was started before and no chunk writer
\* takes a step, and no file or directory changes.
C15_CloseDrains ==
    [][/\ closeReturned'
            => \A c \in Callers : ~ running(c)'
       /\ closeReturned
            => /\ UNCHANGED files
               /\ writers' = writers
               /\ \A c \in Callers :
                    calls[c].pc # "idle" => calls'[c] = calls[c]]_vars

\* all calls are Writes to one key with overwrite disabled, they ran
\* concurrently, met no read error and no failed chunk writer, and have
\* returned
sameKeyRace ==
    /\ quiescent
    /\ ~ overwrite
    /\ callsOf("Write") = Callers
    /\ \A c, d \in Callers : calls[c].key = calls[d].key
    /\ \A c \in Callers :
         calls[c].overlap /\ ~ calls[c].fail /\ calls[c].onceErr = "nil"

\* the node file of key holds exactly the hashes of call c
holdsNodeOf(c) ==
    /\ calls[c].key \in DOMAIN nodes
    /\ nodeWriter(nodes[calls[c].key], <<>>, <<>>)
          = [err |-> "nil", hashes |-> calls[c].hashes]
    /\ Len(calls[c].hashes) = Len(chunksOf(calls[c].val))

\* C17 as stated: exclusive node creation.  Of the concurrent Writes to one
\* key at most one returns nil, every other one returns AlreadyExists, and
\* the node file holds the complete hash list of the one that returned nil.
C17_ExclusiveAll ==
    sameKeyRace
        => /\ Cardinality({c \in Callers : calls[c].res = "ok"}) <= 1
           /\ \A c \in Callers :
                /\ calls[c].res # "ok" => calls[c].res = "ErrAlreadyExists"
                /\ calls[c].res = "ok" => holdsNodeOf(c)

\* C17 amended: of the concurrent Writes to one key at most one returns nil,
\* every other one returns AlreadyExists when its input was not empty and
\* NoDataWritten when it was, and the node file holds the complete hash list
\* of the one that returned nil.
C17_ExclusiveNonEmpty ==
    sameKeyRace
        => /\ Cardinality({c \in Callers : calls[c].res = "ok"}) <= 1
           /\ \A c \in Callers :
                /\ calls[c].res # "ok"
                     => calls[c].res = IF calls[c].val = <<>>
                                       THEN "errNoHashesWritten"
                                       ELSE "ErrAlreadyExists"
                /\ calls[c].res = "ok" => holdsNodeOf(c)

\* C17 witness: two concurrent Writes of different two-chunk values to one
\* key; one returned nil, the other AlreadyExists.
C17_Witness ==
    /\ sameKeyRace
    /\ \E c, d \in Callers :
         /\ calls[c].res = "ok"
         /\ calls[d].res = "ErrAlreadyExists"
         /\ Len(calls[c].hashes) = 2
         /\ Len(calls[d].hashes) = 2
         /\ calls[c].val # calls[d].val

\* C18: first error wins.  When chunk writers of a Write have failed, the
\* Write starts no further chunk read once the failure is in onceErr, and it
\* returns the error of the first writer that failed, after every chunk
\* writer it started has ended, without a node file written.
C18_FirstErrorWins ==
    [][\A c \in Callers :
         (calls[c].op = "Write" /\ calls[c].onceErr # "nil")
           => /\ calls[c].pc # "read" => calls'[c].pc # "read"
              /\ calls'[c].onceErr = calls[c].onceErr
              /\ (calls[c].pc # "done" /\ calls'[c].pc = "done")
                   => /\ calls'[c].res = calls[c].onceErr
                      /\ \A w \in writers' : w.call # c
                      /\ nodes' = nodes]_vars

----------------------------------------------------------------------------
(* The iterator *)

\* C21: from a fresh iterator over n entries, Next returns true n times and
\* Key() after the i-th of them is the key of the i-th entry, each entry once
\* and in order; every later Next returns false, leaves Key() empty and does
\* not move the index
C21_IterOrder ==
    (iter.op # "none" /\ iter.store)
      => /\ Len(iter.seen) <= Len(iter.entries)
         /\ iter.seen = SubSeq(iter.entries, 1, Len(iter.seen))
         /\ iter.index = Len(iter.seen) - 1
         /\ (iter.op = "Next" /\ iter.ok) => iter.key = iter.entries[iter.index + 1]
         /\ (iter.op = "Next" /\ ~ iter.ok)
              => /\ iter.seen = iter.entries
                 /\ iter.key = <<>>
         /\ iter.op = "Key" => iter.out = iter.key

\* an iterator over two or more entries was walked to its end
C21_Witness ==
    /\ iter.store
    /\ iter.op = "Next"
    /\ ~ iter.ok
    /\ Len(iter.seen) >= 2

\* C22: once an iterator is released Value returns ErrIteratorClosed and does
\* not read the store, Next returns false and Key() is empty; no step but
\* Release gives up the read lock the iterator holds
C22_Released ==
    [][/\ (~ iter.store /\ iter.op # "none")
            => /\ iter'.op = "Value"
                    => iter'.err = "ErrIteratorClosed" /\ ~ iter'.fetched
               /\ iter'.op = "Next" => ~ iter'.ok
               /\ iter'.op = "Key" => iter'.out = <<>>
               /\ iter'.key = <<>>
               /\ ~ iter'.held
       /\ (iter.held /\ ~ iter'.held) => iter'.op = "Release"]_vars

\* Value was called on an iterator that was released after it had stood on
\* an entry
C22_Witness ==
    /\ ~ iter.store
    /\ iter.op = "Value"
    /\ iter.err = "ErrIteratorClosed"
    /\ Len(iter.seen) >= 1

----------------------------------------------------------------------------
(* The node codec *)

\* the serialisation of a node: each hash followed by the separator
RECURSIVE nodeBytes(_)
nodeBytes(hashes) ==
    IF hashes = <<>> THEN <<>>
    ELSE Head(hashes) \o <<hashSeparator>> \o nodeBytes(Tail(hashes))

\* a is the beginning of b
isPrefix(a, b) == Len(a) <= Len(b) /\ a = SubSeq(b, 1, Len(a))

\* C23: whatever the sizes of the buffers passed to nodeReader.Read, the
\* bytes read up to the end of the stream are hash, separator, hash,
\* separator, ... for the hashes of the node in order: no hash is doubled,
\* dropped or cut and there are no other bytes
C23_NodeBytes ==
    rd.active
      => /\ ~ rd.over
         /\ isPrefix(rd.out, nodeBytes(rd.hashes))
         /\ rd.eof => rd.out = nodeBytes(rd.hashes)

\* every Read before the end of the stream makes progress
readProgress(r) == (r.n = 0) => (r.eof \/ r.out = <<>>)

\* C24: for every node and every buffer size from 1 byte on, repeated
\* nodeReader.Read calls reach the end of the stream after finitely many
\* calls, each call before that having made progress
C24_ReaderTerminates ==
    /\ [](rd.active => readProgress(rd))
    /\ <>(rd.active => rd.eof)

\* a stream of units: encodedLen bytes that are not the separator, then one
\* separator
wellFormed(stream) ==
    /\ Len(stream) % (encodedLen + 1) = 0
    /\ \A i \in DOMAIN stream :
         (stream[i] = hashSeparator) <=> (i % (encodedLen + 1) = 0)

\* the segments of a stream of units, in order
segments(stream) ==
    [j \in 1..(Len(stream) \div (encodedLen + 1)) |->
        SubSeq(stream, (j - 1) * (encodedLen + 1) + 1,
                       (j - 1) * (encodedLen + 1) + encodedLen)]

\* C25: however a stream is split into nodeWriter.Write calls, parsing
\* succeeds exactly when the stream is a sequence of units (encodedLen bytes
\* and a separator), the hashes parsed are then its segments in order, and
\* every other stream, one that ends in a truncated hash included, is an
\* invalid node
C25_ParseExact ==
    (wr.active /\ wr.done)
      => /\ (wr.err = "nil") <=> wellFormed(wr.stream)
         /\ (wr.err = "nil") => wr.hashes = segments(wr.stream)

\* what a parse comes to: the error, or the hashes
outcome(err, hashes) ==
    [err |-> err, hashes |-> IF err = "nil" THEN hashes ELSE <<>>]

\* the parse of a stream passed to nodeWriter.Write in one call
parseWhole(stream) ==
    IF stream = <<>> THEN outcome(copyEnd(<<>>), <<>>)
    ELSE LET w == nodeWriterWrite(stream, <<>>, <<>>)
         IN outcome(IF w.err # "nil" THEN w.err ELSE copyEnd(w.buf), w.hashes)

\* C26: the outcome of parsing a stream (the invalid-node error, or the
\* hashes) is the same for every split of the stream into Write calls as for
\* the whole stream in one call
C26_ChunkIndependent ==
    (wr.active /\ wr.done)
      => outcome(wr.err, wr.hashes) = parseWhole(wr.stream)

----------------------------------------------------------------------------
(* Block streaming and content addressing *)

\* C27: block streaming loses no byte.  For every key whose blocks are all
\* on disk and every sequence of read buffer sizes, the bytes the stream
\* returns up to its end are the contents of the blocks in the order of the
\* node's hashes; the bytes of a block that a Read left unread, be it one
\* byte, come first in the next Read
C27_NoByteLost ==
    \A key \in DOMAIN nodes \ dangling(nodes, blocks) :
        \A sched \in Scheds :
            readKey(nodes, blocks, key, sched)
               = [res |-> "ok",
                  out |-> blocksBefore(blocks, ReadStream(nodes, key).hashes)]

\* the name of every block file is the hash of its content
contentAddressed(blks) == \A h \in DOMAIN blks : h = EncodeSum(blks[h])

\* C28: content addressing.  A chunk is recorded and stored under the digest
\* of exactly its bytes: every block file's name is the hash of its content,
\* and the content of a block file does not change while the file exists
C28_ContentAddressed ==
    /\ [] contentAddressed(blocks)
    /\ [][\A h \in DOMAIN blocks \cap DOMAIN blocks' :
             blocks'[h] = blocks[h]]_vars

\* C29: node-reference invariant under a concurrent Clean.  When a Clean
\* runs concurrently with Writes (no read error, no failed chunk writer),
\* then once all of them have returned every hash in every node file has a
\* block file: Clean deletes no block that a Write in flight has hashed and
\* references from its node file afterwards
C29_ConcurrentClean ==
    (/\ quiescent
     /\ callsOf("Clean") # {}
     /\ callsOf("Write") \cup callsOf("Clean") = Callers
     /\ \A c \in callsOf("Write") :
          /\ ~ calls[c].fail
          /\ calls[c].onceErr = "nil")
        => dangling(nodes, blocks) = {}

\* C30: corruption reports are sound.  Every key named in the corruption
\* error of Clean has a node file that references a hash without a block
\* file; a node file whose hashes all have block files, and a node file that
\* lists no hash, is not reported
C30_ReportsSound ==
    (last.op = "Clean" /\ last.res = "corrupt")
        => last.corrupt \subseteq dangling(nodes, blocks)

----------------------------------------------------------------------------
(* Clean on errors, Remove, the lock counter *)

\* some node file does not parse
malformed(nds) ==
    \E k \in DOMAIN nds : nodeWriter(nds[k], <<>>, <<>>).err # "nil"

\* C31: Clean aborts safely.  When a node file cannot be opened or does not
\* parse, Clean returns the error without entering the block walk: no block
\* file is deleted; directories that do not exist yet are no error, and Clean
\* returns nil on a store that was never written
C31_CleanAborts ==
    [][(last'.op = "Clean" /\ ~ closed)
         => /\ malformed(nodes)
                 => /\ last'.res = "IOError"
                    /\ blocks' = blocks
            /\ nodeWalk(nodes, NodeFault).err
                 => /\ cleanRun(nodes, blocks, NodeFault).res = "IOError"
                    /\ cleanRun(nodes, blocks, NodeFault).blocks = blocks
            /\ (~ nodeDir /\ ~ blockDir) => last'.res = "ok"]_vars

\* a Clean met a node file that does not parse while a block was on disk
\* that no node file references, and left the block
C31_Witness ==
    /\ last.op = "Clean"
    /\ last.res = "IOError"
    /\ malformed(nodes)
    /\ DOMAIN blocks \ referenced(nodes) # {}

\* C32: Remove touches only the node.  A successful Remove(key) deletes the
\* node file of the key and nothing else: every block file and every other
\* node file stay as they were; and a Clean that follows leaves every other
\* key reading back what it read before, whatever the read buffer sizes
C32_RemoveOnlyNode ==
    [][/\ (last'.op = "Remove" /\ last'.res = "ok")
            => /\ last'.key \in DOMAIN nodes
               /\ DOMAIN nodes' = DOMAIN nodes \ {last'.key}
               /\ \A k \in DOMAIN nodes' : nodes'[k] = nodes[k]
               /\ blocks' = blocks
       /\ (last.op = "Remove" /\ last.res = "ok" /\ last'.op = "Clean")
            => \A k \in DOMAIN nodes : \A sched \in Scheds :
                 readKey(nodes', blocks', k, sched)
                    = readKey(nodes, blocks, k, sched)]_vars

\* a Remove took one key's node file, left another key's and left a block
\* that no node file references any more
C32_Witness ==
    /\ last.op = "Remove"
    /\ last.res = "ok"
    /\ DOMAIN nodes # {}
    /\ DOMAIN blocks \ referenced(nodes) # {}
    /\ referenced(nodes) \subseteq DOMAIN blocks

\* the calls that hold the store lock: a WriteStream between st.lock.Add()
\* and its deferred st.lock.Done(), and a read stream that was returned and
\* is not closed
holdsLock(c) ==
    \/ calls[c].op = "Write" /\ running(c)
    \/ calls[c].op = "Read" /\ calls[c].pc = "stream"

\* C33: the in-flight counter of the store lock equals the number of
\* operations between their entry and their exit plus the number of read
\* streams that are open; it is never negative, and it is zero when no
\* operation is running and no stream is open
C33_CounterBalance ==
    /\ inflight = Cardinality({c \in Callers : holdsLock(c)})
    /\ inflight >= 0
    /\ (\A c \in Callers : ~ running(c)) => inflight = 0

C33_Witness ==
    /\ inflight = 1
    /\ \E c \in Callers : calls[c].op = "Write" /\ calls[c].res = "ok"
    /\ \E c \in Callers : calls[c].op = "Read" /\ calls[c].pc = "stream"

\* C34: on every return path of WriteStream the chunk writers the call has
\* started have ended before the call returns and before it releases the
\* store lock: no chunk writer belongs to a call that has returned, and no
\* block file is written for a call that has returned
C34_WritersJoined ==
    /\ [](\A w \in writers : running(w.call) /\ holdsLock(w.call))
    /\ [][\A w \in writers \ writers' : calls[w.call].pc # "done"]_vars

\* C35: with overwrite disabled, a Write to a key whose node file exists is
\* rejected before a chunk is stored: a Write that returns
\* ErrAlreadyExists leaves the block files, the node files and the node and
\* block directories as they were
C35_RejectBeforeEffects ==
    [][(last'.op = "Write" /\ last'.res = "ErrAlreadyExists")
         => /\ blocks' = blocks
            /\ nodes' = nodes
            /\ nodeDir' = nodeDir
            /\ blockDir' = blockDir]_vars

\* the Reads of a stream, the caller's buffer sizes following the cyclic
\* schedule sched from position i, up to the first Read that returns an
\* error: what that Read returns, the reader it leaves included
RECURSIVE readToError(_, _, _, _)
readToError(blks, r, sched, i) ==
    LET got == blockReaderRead(blks, r, sched[i])
    IN IF got.err = "nil"
       THEN readToError(blks, got.r, sched, (i % Len(sched)) + 1)
       ELSE got

\* whether the next count Reads on the reader r, each with a buffer of
\* length lenb, all return zero bytes
RECURSIVE readsNothing(_, _, _, _)
readsNothing(blks, r, lenb, count) ==
    \/ count = 0
    \/ LET got == blockReaderRead(blks, r, lenb)
       IN /\ got.data = <<>>
          /\ readsNothing(blks, got.r, lenb, count - 1)

\* C36: once a Read on a read stream has returned errCorruptNode for a
\* block that is missing, every later Read on the stream returns zero bytes:
\* the stream does not go on with the blocks that follow the missing one
C36_ReadErrorFinal ==
    \A key \in DOMAIN nodes : \A sched \in Scheds : \A lenb \in 1..MaxBuf :
        LET rs == ReadStream(nodes, key)
            e == readToError(blocks, [hashes |-> rs.hashes, buf |-> <<>>, prev |-> 0],
                             sched, 1)
        IN (rs.res = "ok" /\ e.err = "errCorruptNode")
             => readsNothing(blocks, e.r, lenb, MaxLen)

\* C37: a Read of a key that runs concurrently with the Write of the key
\* does not succeed on a node file that was created but is not completely
\* written: a read stream that ReadStream returns holds the complete list of
\* hashes of a Write of the key that has passed its chunk loop
C37_NoPartialNode ==
    [][\A c \in Callers :
          (calls[c].pc = "idle" /\ calls'[c].op = "Read" /\ calls'[c].pc = "stream")
            => \E d \in Callers :
                 /\ calls[d].op = "Write"
                 /\ calls[d].key = calls'[c].key
                 /\ calls[d].pc \in {"copy", "done"}
                 /\ calls[d].hashes = calls'[c].hashes
                 /\ ~ noHashes(calls'[c].hashes)]_vars

====
